---- MODULE Spec2Model ----
(***************************************************************************)
(* EPOH leader node (GCS_LeaderNode.py), UAV client derivations            *)
(* (UAV_EPOH_Thesis/UAV_Client.py) and chain verifier (varify_chain.py).   *)
(*                                                                         *)
(* Representation.                                                         *)
(*  - A Python str that is computed (a digest, a key, a tx_id, a JSON      *)
(*    text) is a sequence of tokens; + on str is \o.  Literal strings that *)
(*    are only compared (request types, statuses, identities) are TLA+     *)
(*    strings.                                                             *)
(*  - hashlib.sha256(x).hexdigest() is the free term sha256(x): two        *)
(*    digests are equal exactly when their inputs are equal (no            *)
(*    collisions).  A slice h[:n] of a digest is the free term             *)
(*    hexslice(h, n).                                                      *)
(*  - time.time() is a read of a wall clock that never goes back; two      *)
(*    reads may return the same value.  The clock counts milliseconds;    *)
(*    a second has MsPerSec of them (scaled down from 1000).  A run        *)
(*    handles at most MaxRequests requests and its clock reaches at most   *)
(*    MaxClock.                                                            *)
(*  - A Python dict is a record or a function; a list is a sequence.       *)
(*    Sequence positions are 1-based: chain[i] of the program is           *)
(*    chain[i + 1] here.                                                   *)
(***************************************************************************)
EXTENDS Integers, Sequences, FiniteSets, TLC

(* ---------------------------------------------------------------- bounds *)
MaxClock == 1
MaxRequests == 3
MsPerSec == 2
(* ledger files handed to the verifier: at most MaxVerifyLen blocks,     *)
(* timestamps 0 .. MaxStamp                                              *)
MaxVerifyLen == 3
MaxStamp == 2

(* ---------------------------------------------------- program constants *)
Difficulty == 2
BatchSize == 3
XresLen == 10
KtxLen == 16
AckLen == 10
SeedLen == 10

NODE_ID == "Leader_Node_1"

UAV_DB == [UAV_A1 |-> "K_LongTerm_A1", UAV_B2 |-> "K_LongTerm_B2"]

Registered == DOMAIN UAV_DB

(* identities a request may name: the registered ones and a stranger *)
Supis == Registered \cup {"UAV_X9"}

(* "NO_TYPE": the request has no 'type' key (request.get gives None) *)
RequestTypes ==
    {"AUTH_REQUEST_1", "AUTH_RESPONSE_2", "TELEMETRY_TX", "BOGUS_TYPE", "NO_TYPE"}

(* telemetry payloads (already serialised by json.dumps) *)
Payloads == {<<"{x_pos:1.0}">>}

NoneStr == <<>>

SENTINEL == <<"0">>

ZERO64 == <<"0000000000000000000000000000000000000000000000000000000000000000">>

(* ------------------------------------------------------------- hashing *)
sha256(s) == <<"sha256(">> \o s \o <<")">>

hexslice(h, n) == <<"slice(", ToString(n), ",">> \o h \o <<")">>

str(n) == <<ToString(n)>>

(* ---------------------------------------------------------- wall clock *)
Min(a, b) == IF a < b THEN a ELSE b

(* the values the next time.time() may return after a read that gave c *)
TimeAfter(c) == c .. Min(c + 1, MaxClock)

RECURSIVE ClockReads(_, _)
(* the possible results of n successive time.time() reads after c *)
ClockReads(n, c) ==
    IF n = 0 THEN {<<>>}
    ELSE UNION {{<<t>> \o r : r \in ClockReads(n - 1, t)} : t \in TimeAfter(c)}

(* int(time.time() * 1000) *)
Millis(t) == t

(* int(time.time()) *)
Seconds(t) == t \div MsPerSec

(* ------------------------------------------------- key derivation (GCS) *)
calculate_session_key_simulated(long_term_key, rand) ==
    hexslice(sha256(<<long_term_key>> \o str(rand)), KtxLen)

AutnOf(uav_supi, long_term_key, rand) ==
    sha256(<<long_term_key, uav_supi>> \o str(rand))

(* mutant: the expected response derived without the 'Expected' suffix *)
XresStarNoSuffix(long_term_key, rand) ==
    hexslice(sha256(<<long_term_key>> \o str(rand)), XresLen)

XresStarOf(long_term_key, rand) ==
    hexslice(sha256(<<long_term_key>> \o str(rand) \o <<"Expected">>), XresLen)

(* generate_auth_vector_simulated, t the value its time.time() returns *)
generate_auth_vector_simulated(uav_supi, long_term_key, t) ==
    [rand |-> Millis(t),
     autn |-> AutnOf(uav_supi, long_term_key, Millis(t)),
     xres_star |-> XresStarOf(long_term_key, Millis(t)),
     ktx |-> calculate_session_key_simulated(long_term_key, Millis(t))]

(* ---------------------------------------------- key derivation (client) *)
client_calculate_session_key_simulated(long_term_key, rand) ==
    hexslice(sha256(<<long_term_key>> \o str(rand)), KtxLen)

(* mutant: the client derives its response without the suffix *)
ClientResStarNoSuffix(long_term_key, rand) ==
    hexslice(sha256(<<long_term_key>> \o str(rand)), XresLen)

calculate_res_star_simulated(long_term_key, rand) ==
    hexslice(sha256(<<long_term_key>> \o str(rand) \o <<"Expected">>), XresLen)

(* ------------------------------------- json.dumps(..., sort_keys=True) *)
(* The texts are token sequences; keys appear in sorted order.  A float  *)
(* timestamp and an int print as their decimal text.                     *)
JsonStr(s) == <<"\"">> \o s \o <<"\"">>

(* a transaction dict: genesis {data, tx_id}, telemetry {data, tx_id,    *)
(* uav_supi}, auth success {auth_rand, session_key_sim, status, tx_id,   *)
(* uav_supi}                                                             *)
JsonTx(tx) ==
    IF "status" \in DOMAIN tx
    THEN <<"{auth_rand:">> \o str(tx.auth_rand)
         \o <<",session_key_sim:">> \o JsonStr(tx.session_key_sim)
         \o <<",status:", tx.status>>
         \o <<",tx_id:">> \o JsonStr(tx.tx_id)
         \o <<",uav_supi:", tx.uav_supi, "}">>
    ELSE IF "uav_supi" \in DOMAIN tx
    THEN <<"{data:">> \o tx.data
         \o <<",tx_id:">> \o JsonStr(tx.tx_id)
         \o <<",uav_supi:", tx.uav_supi, "}">>
    ELSE <<"{data:">> \o JsonStr(tx.data)
         \o <<",tx_id:">> \o JsonStr(tx.tx_id) \o <<"}">>

(* an event-log entry: {event_type} or {event_type, hash_at_event,       *)
(* timestamp, tx_id}                                                     *)
JsonEvent(e) ==
    IF "hash_at_event" \in DOMAIN e
    THEN <<"{event_type:", e.event_type>>
         \o <<",hash_at_event:">> \o JsonStr(e.hash_at_event)
         \o <<",timestamp:">> \o str(e.timestamp)
         \o <<",tx_id:">> \o JsonStr(e.tx_id) \o <<"}">>
    ELSE <<"{event_type:", e.event_type, "}">>

RECURSIVE JsonList(_, _)
(* the texts of a list's items, each followed by a comma, inside [ ]     *)
JsonList(items, i) ==
    IF i > Len(items) THEN <<"]">>
    ELSE items[i] \o <<",">> \o JsonList(items, i + 1)

JsonTxs(txs) == <<"[">> \o JsonList([i \in 1 .. Len(txs) |-> JsonTx(txs[i])], 1)

JsonEvents(log) == <<"[">> \o JsonList([i \in 1 .. Len(log) |-> JsonEvent(log[i])], 1)

(* ------------------------------------------------------------ EPOH_Core *)
(* generate_sequential_hash: the digest after one advance of digest h    *)
generate_sequential_hash(h) == sha256(h)

(* embed_transaction: the digest after embedding data_payload into h     *)
embed_transaction(h, data_payload) == sha256(h \o JsonTx(data_payload))

RECURSIVE Advance(_, _)
(* n calls of generate_sequential_hash *)
Advance(h, n) == IF n = 0 THEN h ELSE Advance(generate_sequential_hash(h), n - 1)

RECURSIVE HashAtEvent(_, _, _)
(* the digest right after the i-th transaction of the loop of            *)
(* create_block was embedded (i = 0: the digest the loop starts from)    *)
HashAtEvent(previous_hash, transactions, i) ==
    IF i = 0 THEN previous_hash
    ELSE embed_transaction(
             Advance(HashAtEvent(previous_hash, transactions, i - 1), Difficulty),
             transactions[i])

BlockIndex(current_chain_length) == current_chain_length + 1

(* the state of an EPOH_Core object *)
Engine(h, n) == [latest_hash |-> h, sequence_count |-> n]

(* mutant: create_block goes on from the digest the engine holds *)
EngineKept(engine, previous_hash) == engine

(* the first two statements of create_block *)
EngineReset(engine, previous_hash) == Engine(previous_hash, 0)

RECURSIVE AdvanceEngine(_, _)
(* the engine after n calls of generate_sequential_hash: each replaces  *)
(* the digest and adds one to sequence_count                             *)
AdvanceEngine(engine, n) ==
    IF n = 0 THEN engine
    ELSE AdvanceEngine(Engine(generate_sequential_hash(engine.latest_hash),
                              engine.sequence_count + 1), n - 1)

(* mutant: embed_transaction leaves sequence_count alone *)
EmbedUncounted(engine, data_payload) ==
    Engine(embed_transaction(engine.latest_hash, data_payload), engine.sequence_count)

(* the engine after embed_transaction(data_payload) *)
EmbedEngine(engine, data_payload) ==
    Engine(embed_transaction(engine.latest_hash, data_payload),
           engine.sequence_count + 1)

RECURSIVE EngineAtEvent(_, _, _)
(* the engine after the first i passes of the loop of create_block       *)
(* entered in state start: difficulty advances, then one embed           *)
EngineAtEvent(start, transactions, i) ==
    IF i = 0 THEN start
    ELSE EmbedEngine(AdvanceEngine(EngineAtEvent(start, transactions, i - 1),
                                   Difficulty),
                     transactions[i])

(* create_block called on an engine in state `engine`: times are the    *)
(* values of its time.time() reads, one per transaction (inside          *)
(* embed_transaction) and one for the block.                             *)
(* Returns the block and the engine state it leaves.                     *)
create_block(engine, transactions, previous_hash, current_chain_length, times) ==
    LET n == Len(transactions)
        start == EngineReset(engine, previous_hash)
        event_log == [i \in 1 .. n |->
                        [event_type |-> "TRANSACTION_EMBEDDED",
                         timestamp |-> times[i],
                         hash_at_event |-> EngineAtEvent(start, transactions, i).latest_hash,
                         tx_id |-> transactions[i].tx_id]]
        end == EngineAtEvent(start, transactions, n)
        final_hash == end.latest_hash
    IN  [block |-> [index |-> BlockIndex(current_chain_length),
                    timestamp |-> times[n + 1],
                    previous_hash |-> previous_hash,
                    event_log |-> event_log,
                    transactions |-> transactions,
                    current_hash |-> final_hash],
         latest_hash |-> final_hash,
         sequence_count |-> end.sequence_count]

(* -------------------------------------------------------- varify_chain *)
(* mutant: the digest leaves the transactions out as well *)
HashBlockSkipsTransactions(block) ==
    sha256(<<"{event_log:">> \o JsonEvents(block.event_log)
           \o <<",index:">> \o str(block.index)
           \o <<",previous_hash:">> \o JsonStr(block.previous_hash)
           \o <<",timestamp:">> \o str(block.timestamp) \o <<"}">>)

(* hash_block: digest of the block's JSON text without current_hash      *)
hash_block(block) ==
    sha256(<<"{event_log:">> \o JsonEvents(block.event_log)
           \o <<",index:">> \o str(block.index)
           \o <<",previous_hash:">> \o JsonStr(block.previous_hash)
           \o <<",timestamp:">> \o str(block.timestamp)
           \o <<",transactions:">> \o JsonTxs(block.transactions) \o <<"}">>)

LinkBroken(c, i) == c[i].previous_hash # hash_block(c[i - 1])

(* mutant: equal timestamps pass the chronology check *)
ChronologyBrokenStrict(c, i) == c[i].timestamp < c[i - 1].timestamp

ChronologyBroken(c, i) == c[i].timestamp <= c[i - 1].timestamp

RECURSIVE VerifyFrom(_, _)
(* the loop of is_valid_chain from position i on: the first failing      *)
(* check returns; `at` is the 0-based index named in the message         *)
VerifyFrom(c, i) ==
    IF i > Len(c)
    THEN [valid |-> TRUE, reason |-> "valid", at |-> -1]
    ELSE IF LinkBroken(c, i)
    THEN [valid |-> FALSE, reason |-> "integrity", at |-> i - 1]
    ELSE IF ChronologyBroken(c, i)
    THEN [valid |-> FALSE, reason |-> "chronology", at |-> i - 1]
    ELSE VerifyFrom(c, i + 1)

(* is_valid_chain over the ledger file f; `at` is the 0-based index the  *)
(* failure is reported at (-1: none)                                     *)
is_valid_chain(f) ==
    IF f.kind # "json"
    THEN [valid |-> FALSE, reason |-> "missing or corrupted", at |-> -1]
    ELSE IF f.chain = <<>>
    THEN [valid |-> FALSE, reason |-> "empty", at |-> -1]
    ELSE IF f.chain[1].previous_hash # SENTINEL
    THEN [valid |-> FALSE, reason |-> "genesis", at |-> 0]
    ELSE VerifyFrom(f.chain, 2)

(* ---------------------------------------------------------------- state *)
VARIABLES
    node_up,                  \* the LeaderNode object has been constructed
    chain,                    \* LeaderNode.chain
    transaction_pool,         \* LeaderNode.transaction_pool
    pending_auth_challenges,  \* LeaderNode.pending_auth_challenges
    latest_hash,              \* LeaderNode.epoh.latest_hash
    sequence_count,           \* LeaderNode.epoh.sequence_count
    ledger_file,              \* the file epoh_ledger.json
    pool_alias,               \* positions of the blocks of chain whose 'transactions'
                              \* is the very list object transaction_pool names
    clock,                    \* the value of the latest time.time() read
    last,                     \* the request handled last and the response sent
    handled,                  \* the number of requests handled so far
    challenge_log,            \* history: per identity, the challenge issued to it
                              \* last, the failed AUTH_RESPONSE_2 since, whether
                              \* a matching response consumed it, and the
                              \* challenges it replaced while they were pending
    saving,                   \* the leader is inside save_chain: the file is
                              \* open for writing and json.dump has not returned
    verdict,                  \* what the latest run of the verifier read and
                              \* returned
    tampered,                 \* history: the block and field of the ledger file
                              \* that was edited outside the leader
    crashed,                  \* an exception left LeaderNode(): the process ended
    built,                    \* the results of the create_block calls made on
                              \* the engine directly, with their arguments
    issued,                   \* history: the challenge values issued so far
    accepted                  \* history: the transactions appended to the pool,
                              \* in the order of the appends

vars == <<node_up, chain, transaction_pool, pending_auth_challenges, latest_hash,
          sequence_count, ledger_file, pool_alias, clock, last, handled,
          challenge_log, saving, verdict, tampered, crashed,
                   built, issued, accepted>>

NoFile == [kind |-> "missing", chain |-> <<>>]

MalformedFile == [kind |-> "malformed", chain |-> <<>>]

(* json.dump of the chain followed by json.load gives the chain back:    *)
(* it holds only dicts, lists, str, int and float                        *)
JsonFile(c) == [kind |-> "json", chain |-> c]

NoRequest == [type |-> "NONE", uav_supi |-> "NONE", res_star |-> NoneStr, data |-> NoneStr]

NoResponse == [status |-> "NONE"]

(* the handler raised: the accept loop of start_leader_node catches the  *)
(* exception and passes; nothing is answered and nothing is reported     *)
Raised == [status |-> "RAISED", reported |-> FALSE]

NoVerdict == [ran |-> FALSE]

NoTamper == [pos |-> 0, field |-> "NONE"]

(* ------------------------------------------------------------ LeaderNode *)
(* JSON values that are not lists of blocks: {}, null, [7] and ""        *)
NonBlockJson == {"EMPTY_OBJECT", "NULL", "LIST_OF_INT", "EMPTY_STRING"}

(* a ledger file whose text parses to such a value *)
OtherJsonFile(v) == [kind |-> "json_value", chain |-> <<>>, value |-> v]

(* load_chain over the ledger file f: the chain and engine digest it     *)
(* leaves.  IndexError (on [] and on "") is caught like a decode error;  *)
(* the KeyError or TypeError of self.chain[-1]['current_hash'] on        *)
(* another value is not caught and leaves LeaderNode()                   *)
load_chain(f) ==
    IF f.kind = "json" /\ f.chain # <<>>
    THEN [chain |-> f.chain, latest_hash |-> f.chain[Len(f.chain)].current_hash,
          raised |-> FALSE]
    ELSE IF f.kind = "json_value" /\ f.value # "EMPTY_STRING"
    THEN [chain |-> <<>>, latest_hash |-> ZERO64, raised |-> TRUE]
    ELSE [chain |-> <<>>, latest_hash |-> ZERO64, raised |-> FALSE]

save_chain(c) == JsonFile(c)

(* mutant: the genesis block linked to the engine's initial digest *)
GenesisPreviousHashZero64 == ZERO64

GenesisPreviousHash == SENTINEL

(* the block create_genesis_block appends; h the engine digest before,   *)
(* t the value of its time.time()                                        *)
genesis_block(h, t) ==
    [index |-> 0,
     timestamp |-> t,
     previous_hash |-> GenesisPreviousHash,
     event_log |-> <<[event_type |-> "CHAIN_START"]>>,
     transactions |-> <<[tx_id |-> <<"GENESIS_TX">>, data |-> <<"System Initialized">>]>>,
     current_hash |-> generate_sequential_hash(h)]

(* the chain after an append to the pool list: a block whose             *)
(* 'transactions' is that same list object shows the new item too        *)
ThroughAlias(c, alias, pool) ==
    [i \in 1 .. Len(c) |->
        IF i \in alias THEN [c[i] EXCEPT !.transactions = pool] ELSE c[i]]

(* mutant: the new block linked by the canonical hash of the last block *)
PreviousHashCanonical(c) == hash_block(c[Len(c)])

(* line 255: last_hash = self.chain[-1]['current_hash'] *)
PreviousHashFor(c) == c[Len(c)].current_hash

(* mutant: mine_block leaves the pool as it was *)
PoolKeptAfterMine(pool) == pool

(* line 266: self.transaction_pool = [] *)
PoolAfterMine(pool) == <<>>

(* mine_block on pool and chain c; times are the time.time() reads of    *)
(* create_block; save is what save_chain does: "ok", or it raises with   *)
(* the file "unchanged" (open failed) or "malformed" (a partial write),  *)
(* or "begin": the state while save_chain is running, after open(..,'w') *)
(* truncated the file and before json.dump has written all of it         *)
mine_block(pool, c, alias, times, save) ==
    IF pool = <<>>
    THEN [chain |-> c, transaction_pool |-> pool, pool_alias |-> alias,
          latest_hash |-> latest_hash, sequence_count |-> sequence_count,
          ledger_file |-> ledger_file, raised |-> FALSE]
    ELSE LET made == create_block(Engine(latest_hash, sequence_count), pool,
                                  PreviousHashFor(c), Len(c), times)
             c2 == Append(c, made.block)
         IN  IF save = "ok"
             THEN [chain |-> c2, transaction_pool |-> PoolAfterMine(pool),
                   pool_alias |-> {},
                   latest_hash |-> made.latest_hash,
                   sequence_count |-> made.sequence_count,
                   ledger_file |-> save_chain(c2), raised |-> FALSE]
             ELSE [chain |-> c2, transaction_pool |-> pool,
                   pool_alias |-> alias \cup {Len(c2)},
                   latest_hash |-> made.latest_hash,
                   sequence_count |-> made.sequence_count,
                   ledger_file |-> IF save = "unchanged" THEN ledger_file
                                   ELSE MalformedFile,
                   raised |-> save # "begin"]

(* mutant: the pool is replaced by the new transaction alone *)
PoolWithOnly(pool, tx) == <<tx>>

(* lines 216 and 237: self.transaction_pool.append(tx) *)
PoolWith(pool, tx) == Append(pool, tx)

(* mutant: a block is mined one transaction later *)
MineTriggerLate(pool_size) == pool_size > BatchSize

(* mutant: every telemetry transaction is mined at once *)
MineTriggerAlways(pool_size) == TRUE

(* line 240: len(self.transaction_pool) >= 3 *)
MineTrigger(pool_size) == pool_size >= BatchSize

(* mutant: the table is rebuilt with the new challenge alone *)
StoreChallengeAlone(pending, uav_supi, entry) == [u \in {uav_supi} |-> entry]

(* lines 181-186: self.pending_auth_challenges[uav_supi] = {...} *)
StoreChallenge(pending, uav_supi, entry) ==
    [u \in DOMAIN pending \cup {uav_supi} |->
        IF u = uav_supi THEN entry ELSE pending[u]]

ChallengeIssued(av) ==
    [status |-> "CHALLENGE_ISSUED", rand |-> av.rand, autn |-> av.autn,
     pk_node |-> "NodePubKey_Sim"]

AuthSuccessResponse(ktx_sim) == [status |-> "AUTH_SUCCESS", session_key |-> ktx_sim]

BlockAckResponse(block) ==
    [status |-> "TX_BLOCK_ACK",
     hash |-> hexslice(block.current_hash, AckLen),
     next_hash |-> block.current_hash]

(* mutant: an unknown identity falls through to the type dispatch *)
UnknownSupiFallsThrough == [status |-> "ERROR", reason |-> "Invalid Request Type"]

(* mutant: an invalid type is answered like a refused response *)
InvalidTypeRefused ==
    [status |-> "AUTH_FAILURE", reason |-> "RES* mismatch or no pending challenge"]

(* line 247 *)
InvalidTypeResponse == [status |-> "ERROR", reason |-> "Invalid Request Type"]

(* line 171 *)
UnknownSupiResponse == [status |-> "AUTH_FAILURE", reason |-> "Unknown SUPI/UAV ID"]

(* line 204: the response is accepted *)
ResponseAccepted(pending, uav_supi, res_star_received) ==
    /\ uav_supi \in DOMAIN pending
    /\ res_star_received = pending[uav_supi].xres_star

(* mutant: the challenge is left in the table when it is matched *)
DelChallengeKeeps(pending, uav_supi) == pending

(* line 219: del self.pending_auth_challenges[uav_supi] *)
DelChallenge(pending, uav_supi) ==
    [u \in DOMAIN pending \ {uav_supi} |-> pending[u]]

(* mutant: a refused response removes the pending challenge *)
PendingClearedOnMismatch(pending, uav_supi) == DelChallenge(pending, uav_supi)

(* mutant: a refused response voids the expected value of the challenge *)
PendingVoidedOnMismatch(pending, uav_supi) ==
    [u \in DOMAIN pending |->
        IF u = uav_supi THEN [pending[u] EXCEPT !.xres_star = <<"void">>]
        ELSE pending[u]]

(* the else branch of line 225 leaves the table alone *)
PendingAfterMismatch(pending, uav_supi) == pending

AuthSuccessTx(uav_supi, challenge, t) ==
    [tx_id |-> <<"AUTH_SUCCESS_", uav_supi, "_">> \o str(Seconds(t)),
     uav_supi |-> uav_supi,
     status |-> "AUTHENTICATED",
     session_key_sim |-> challenge.ktx_sim,
     auth_rand |-> challenge.rand]

TelemetryTx(uav_supi, telemetry_data, t) ==
    [tx_id |-> <<"TELEMETRY_", uav_supi, "_">> \o str(Seconds(t)),
     uav_supi |-> uav_supi,
     data |-> telemetry_data]

(* the responses a client may send: RES* derived by the client code     *)
(* from any registered secret and any challenge value, or no res_star    *)
ResStarInputs ==
    {calculate_res_star_simulated(UAV_DB[k], r) :
        k \in Registered, r \in 0 .. Millis(MaxClock)} \cup {NoneStr}

SaveFaults == {"unchanged", "malformed"}

Request(type, uav_supi, res_star, data) ==
    [type |-> type, uav_supi |-> uav_supi, res_star |-> res_star, data |-> data]

(* challenge_log with the entry of uav_supi set to e *)
Logged(uav_supi, e) ==
    [u \in DOMAIN challenge_log \cup {uav_supi} |->
        IF u = uav_supi THEN e ELSE challenge_log[u]]

(* ---------------------------------------------------------------- steps *)
(* __main__ removes the ledger file before the leader is constructed     *)
Init ==
    /\ node_up = FALSE
    /\ chain = <<>>
    /\ transaction_pool = <<>>
    /\ pending_auth_challenges = <<>>
    /\ latest_hash = ZERO64
    /\ sequence_count = 0
    /\ ledger_file = NoFile
    /\ pool_alias = {}
    /\ clock = 0
    /\ last = [req |-> NoRequest, resp |-> NoResponse]
    /\ handled = 0
    /\ challenge_log = <<>>
    /\ saving = FALSE
    /\ verdict = NoVerdict
    /\ tampered = NoTamper
    /\ crashed = FALSE
    /\ built = <<>>
    /\ issued = {}
    /\ accepted = <<>>

(* LeaderNode.__init__: load_chain, then create_genesis_block if the     *)
(* chain is empty                                                        *)
Construct ==
    /\ ~node_up
    /\ ~crashed
    /\ LET loaded == load_chain(ledger_file)
       IN  IF loaded.raised
           THEN /\ crashed' = TRUE
                /\ UNCHANGED <<node_up, chain, latest_hash, sequence_count,
                               ledger_file, clock>>
           ELSE IF loaded.chain # <<>>
           THEN /\ node_up' = TRUE
                /\ chain' = loaded.chain
                /\ latest_hash' = loaded.latest_hash
                /\ UNCHANGED <<sequence_count, ledger_file, clock, crashed>>
           ELSE \E t \in TimeAfter(clock) :
                /\ node_up' = TRUE
                /\ chain' = <<genesis_block(loaded.latest_hash, t)>>
                /\ latest_hash' = chain'[1].current_hash
                /\ sequence_count' = sequence_count + 1
                /\ ledger_file' = save_chain(chain')
                /\ clock' = t
                /\ UNCHANGED crashed
    /\ UNCHANGED <<transaction_pool, pending_auth_challenges, pool_alias, last,
                   handled, challenge_log, saving, verdict, tampered, built, issued, accepted>>

(* handle_uav_request, type AUTH_REQUEST_1, registered identity *)
HandleAuthRequest1(uav_supi) ==
    /\ node_up
    /\ ~saving
    /\ handled < MaxRequests
    /\ handled' = handled + 1
    /\ uav_supi \in Registered
    /\ \E times \in ClockReads(2, clock) :
         LET av == generate_auth_vector_simulated(uav_supi, UAV_DB[uav_supi], times[1])
             entry == [xres_star |-> av.xres_star, ktx_sim |-> av.ktx,
                       rand |-> av.rand, timestamp |-> times[2]]
             replaced == IF uav_supi \in DOMAIN pending_auth_challenges
                         THEN challenge_log[uav_supi].replaced
                                  \cup {pending_auth_challenges[uav_supi].rand}
                         ELSE {}
         IN  /\ pending_auth_challenges' =
                    StoreChallenge(pending_auth_challenges, uav_supi, entry)
             /\ clock' = times[2]
             /\ issued' = issued \cup {av.rand}
             /\ challenge_log' = Logged(uav_supi, [rand |-> av.rand, failures |-> 0,
                                                   consumed |-> FALSE,
                                                   replaced |-> replaced])
             /\ last' = [req |-> Request("AUTH_REQUEST_1", uav_supi, NoneStr, NoneStr),
                         resp |-> ChallengeIssued(av)]
    /\ UNCHANGED <<node_up, chain, transaction_pool, latest_hash, sequence_count,
                   ledger_file, pool_alias, saving, verdict, tampered, crashed, built,
                   accepted>>

(* handle_uav_request, type AUTH_RESPONSE_2, registered identity *)
HandleAuthResponse2(uav_supi, res_star, save) ==
    /\ node_up
    /\ ~saving
    /\ handled < MaxRequests
    /\ handled' = handled + 1
    /\ uav_supi \in Registered
    /\ IF ResponseAccepted(pending_auth_challenges, uav_supi, res_star)
       THEN /\ \E times \in ClockReads(Len(transaction_pool) + 3, clock) :
                 LET pending_challenge == pending_auth_challenges[uav_supi]
                     success_tx == AuthSuccessTx(uav_supi, pending_challenge, times[1])
                     pool == PoolWith(transaction_pool, success_tx)
                     c == ThroughAlias(chain, pool_alias, pool)
                     m == mine_block(pool, c, pool_alias,
                                     SubSeq(times, 2, Len(times)), save)
                 IN  /\ accepted' = Append(accepted, success_tx)
                     /\ chain' = m.chain
                     /\ transaction_pool' = m.transaction_pool
                     /\ pool_alias' = m.pool_alias
                     /\ latest_hash' = m.latest_hash
                     /\ sequence_count' = m.sequence_count
                     /\ ledger_file' = m.ledger_file
                     /\ clock' = times[Len(times)]
                     /\ last' = [req |-> Request("AUTH_RESPONSE_2", uav_supi,
                                                 res_star, NoneStr),
                                 resp |-> IF m.raised THEN Raised
                                          ELSE IF save = "begin" THEN NoResponse
                                          ELSE AuthSuccessResponse(
                                                   pending_challenge.ktx_sim)]
            /\ saving' = (save = "begin")
            /\ pending_auth_challenges' = DelChallenge(pending_auth_challenges, uav_supi)
            /\ challenge_log' =
                   Logged(uav_supi, [challenge_log[uav_supi] EXCEPT !.consumed = TRUE])
            /\ UNCHANGED <<node_up, verdict, tampered, crashed,
                   built, issued>>
       ELSE /\ save = "ok"
            /\ pending_auth_challenges' =
                   PendingAfterMismatch(pending_auth_challenges, uav_supi)
            /\ last' = [req |-> Request("AUTH_RESPONSE_2", uav_supi, res_star, NoneStr),
                        resp |-> [status |-> "AUTH_FAILURE",
                                  reason |-> "RES* mismatch or no pending challenge"]]
            /\ challenge_log' =
                   IF uav_supi \in DOMAIN challenge_log
                   THEN Logged(uav_supi, [challenge_log[uav_supi] EXCEPT
                                             !.failures = @ + 1])
                   ELSE challenge_log
            /\ UNCHANGED <<node_up, chain, transaction_pool, latest_hash,
                           sequence_count, ledger_file, pool_alias, clock, saving,
                           verdict, tampered, crashed,
                   built, issued, accepted>>

(* handle_uav_request, type TELEMETRY_TX, registered identity *)
HandleTelemetryTx(uav_supi, telemetry_data, save) ==
    /\ node_up
    /\ ~saving
    /\ handled < MaxRequests
    /\ handled' = handled + 1
    /\ uav_supi \in Registered
    /\ LET mines == MineTrigger(Len(transaction_pool) + 1)
       IN  /\ ~mines => save = "ok"
           /\ \E times \in ClockReads(IF mines THEN Len(transaction_pool) + 3 ELSE 1,
                                      clock) :
                LET telemetry_tx == TelemetryTx(uav_supi, telemetry_data, times[1])
                    pool == PoolWith(transaction_pool, telemetry_tx)
                    c == ThroughAlias(chain, pool_alias, pool)
                    m == mine_block(pool, c, pool_alias,
                                    SubSeq(times, 2, Len(times)), save)
                    req == Request("TELEMETRY_TX", uav_supi, NoneStr, telemetry_data)
                IN  IF mines
                    THEN /\ accepted' = Append(accepted, telemetry_tx)
                         /\ chain' = m.chain
                         /\ transaction_pool' = m.transaction_pool
                         /\ pool_alias' = m.pool_alias
                         /\ latest_hash' = m.latest_hash
                         /\ sequence_count' = m.sequence_count
                         /\ ledger_file' = m.ledger_file
                         /\ clock' = times[Len(times)]
                         /\ last' = [req |-> req,
                                     resp |-> IF m.raised THEN Raised
                                              ELSE IF save = "begin" THEN NoResponse
                                              ELSE BlockAckResponse(
                                                       m.chain[Len(m.chain)])]
                         /\ saving' = (save = "begin")
                    ELSE /\ accepted' = Append(accepted, telemetry_tx)
                         /\ chain' = c
                         /\ transaction_pool' = pool
                         /\ clock' = times[1]
                         /\ last' = [req |-> req,
                                     resp |-> [status |-> "TX_RECEIVED",
                                               hash_seed |-> hexslice(latest_hash, SeedLen)]]
                         /\ UNCHANGED <<pool_alias, latest_hash, sequence_count,
                                        ledger_file, saving>>
    /\ UNCHANGED <<node_up, pending_auth_challenges, challenge_log, verdict, tampered, crashed,
                   built, issued>>

(* handle_uav_request, identity not in UAV_DB (lines 170-171), any type *)
HandleUnknownSupi(type, uav_supi) ==
    /\ node_up
    /\ ~saving
    /\ handled < MaxRequests
    /\ handled' = handled + 1
    /\ uav_supi \notin Registered
    /\ last' = [req |-> Request(type, uav_supi, NoneStr, NoneStr),
                resp |-> UnknownSupiResponse]
    /\ UNCHANGED <<node_up, chain, transaction_pool, pending_auth_challenges,
                   latest_hash, sequence_count, ledger_file, pool_alias, clock,
                   challenge_log, saving, verdict, tampered, crashed,
                   built, issued, accepted>>

(* handle_uav_request, registered identity, no branch taken (line 247) *)
HandleInvalidType(type, uav_supi, res_star, data) ==
    /\ node_up
    /\ ~saving
    /\ handled < MaxRequests
    /\ handled' = handled + 1
    /\ uav_supi \in Registered
    /\ type \notin {"AUTH_REQUEST_1", "AUTH_RESPONSE_2", "TELEMETRY_TX"}
    /\ last' = [req |-> Request(type, uav_supi, res_star, data),
                resp |-> InvalidTypeResponse]
    /\ UNCHANGED <<node_up, chain, transaction_pool, pending_auth_challenges,
                   latest_hash, sequence_count, ledger_file, pool_alias, clock,
                   challenge_log, saving, verdict, tampered, crashed,
                   built, issued, accepted>>

AuthRequest1 == \E u \in Supis : HandleAuthRequest1(u)

AuthResponse2 == \E u \in Supis, r \in ResStarInputs : HandleAuthResponse2(u, r, "ok")

TelemetryTX == \E u \in Supis, d \in Payloads : HandleTelemetryTx(u, d, "ok")

UnknownSupi == \E ty \in RequestTypes, u \in Supis : HandleUnknownSupi(ty, u)

(* the other fields a request of invalid type may carry: none, or the   *)
(* response matching the pending challenge of its identity together      *)
(* with a telemetry payload                                              *)
StrayFields(uav_supi) ==
    {[res_star |-> NoneStr, data |-> NoneStr]}
    \cup {[res_star |-> pending_auth_challenges[u].xres_star, data |-> d] :
             u \in DOMAIN pending_auth_challenges \cap {uav_supi}, d \in Payloads}

InvalidType ==
    \E ty \in RequestTypes, u \in Supis :
        \E f \in StrayFields(u) : HandleInvalidType(ty, u, f.res_star, f.data)

(* a handler whose save_chain raises *)
AuthResponse2SaveFails ==
    \E u \in Supis, r \in ResStarInputs, f \in SaveFaults : HandleAuthResponse2(u, r, f)

TelemetryTXSaveFails ==
    \E u \in Supis, d \in Payloads, f \in SaveFaults : HandleTelemetryTx(u, d, f)

(* the wall clock moves on while the leader waits in accept(): no code  *)
(* of the leader runs                                                    *)
TimePasses ==
    /\ clock < MaxClock
    /\ clock' \in (clock + 1) .. MaxClock
    /\ UNCHANGED <<node_up, chain, transaction_pool, pending_auth_challenges,
                   latest_hash, sequence_count, ledger_file, pool_alias, last,
                   handled, challenge_log, saving, verdict, tampered, crashed,
                   built, issued, accepted>>

Next ==
    \/ Construct
    \/ AuthRequest1
    \/ AuthResponse2
    \/ TelemetryTX
    \/ UnknownSupi
    \/ InvalidType
    \/ TimePasses

(* the leader when save_chain never raises *)
Spec == Init /\ [][Next]_vars

NextFault ==
    \/ Next
    \/ AuthResponse2SaveFails
    \/ TelemetryTXSaveFails

(* the leader when save_chain may raise *)
SpecFault == Init /\ [][NextFault]_vars

(* ------------------------------------------------- readers of the file *)
(* a handler that has reached json.dump inside save_chain *)
AuthResponse2SaveBegins ==
    \E u \in Supis, r \in ResStarInputs : HandleAuthResponse2(u, r, "begin")

TelemetryTXSaveBegins ==
    \E u \in Supis, d \in Payloads : HandleTelemetryTx(u, d, "begin")

(* json.dump returns and the file is closed; mine_block rebinds the pool *)
(* and the handler returns its response                                  *)
FinishSave ==
    /\ saving
    /\ saving' = FALSE
    /\ ledger_file' = save_chain(chain)
    /\ transaction_pool' = PoolAfterMine(transaction_pool)
    /\ pool_alias' = {}
    /\ LET block == chain[Len(chain)]
           tx == block.transactions[Len(block.transactions)]
       IN  last' = [last EXCEPT !.resp =
                       IF last.req.type = "AUTH_RESPONSE_2"
                       THEN AuthSuccessResponse(tx.session_key_sim)
                       ELSE BlockAckResponse(block)]
    /\ UNCHANGED <<node_up, chain, pending_auth_challenges, latest_hash,
                   sequence_count, clock, handled, challenge_log, verdict, tampered, crashed,
                   built, issued, accepted>>

(* varify_chain.py is run: it reads the ledger file as it is now *)
RunVerifier ==
    /\ verdict' = [ran |-> TRUE, file |-> ledger_file,
                   result |-> is_valid_chain(ledger_file)]
    /\ UNCHANGED <<node_up, chain, transaction_pool, pending_auth_challenges,
                   latest_hash, sequence_count, ledger_file, pool_alias, clock,
                   last, handled, challenge_log, saving, tampered, crashed,
                   built, issued, accepted>>

NextReader ==
    \/ Next
    \/ AuthResponse2SaveBegins
    \/ TelemetryTXSaveBegins
    \/ FinishSave
    \/ RunVerifier

(* the leader with the verifier run at any moment, also while save_chain *)
(* is writing                                                            *)
SpecReader == Init /\ [][NextReader]_vars

(* ------------------------------------------- the verifier on any ledger *)
Stamps == 0 .. MaxStamp

(* a block as create_block builds it on chain c at time t, linked to its *)
(* predecessor by the predecessor's canonical hash or, as the leader     *)
(* does, by its current_hash                                             *)
LedgerBlock(c, t, link) ==
    LET prev == IF link = "canonical" THEN hash_block(c[Len(c)])
                ELSE c[Len(c)].current_hash
    IN  create_block(Engine(c[Len(c)].current_hash, 0),
                     <<TelemetryTx("UAV_A1", <<"{x_pos:1.0}">>, t)>>, prev,
                     Len(c), <<t, t>>).block

RECURSIVE LedgersOfLen(_)
(* the ledgers of n blocks the verifier is run on *)
LedgersOfLen(n) ==
    IF n = 0 THEN {<<>>}
    ELSE IF n = 1
    THEN {<<[genesis_block(ZERO64, t) EXCEPT !.previous_hash = h]>> :
             t \in Stamps, h \in {SENTINEL, ZERO64}}
    ELSE {Append(c, LedgerBlock(c, t, link)) :
             c \in LedgersOfLen(n - 1), t \in Stamps,
             link \in {"canonical", "current"}}

VerifierInputs ==
    {NoFile, MalformedFile}
    \cup {JsonFile(c) : c \in UNION {LedgersOfLen(n) : n \in 0 .. MaxVerifyLen}}

BlockFields ==
    {"index", "timestamp", "previous_hash", "event_log", "transactions", "current_hash"}

(* the values an edit of the file may give field of block b *)
TamperedBlocks(b, field) ==
    CASE field = "index" -> {[b EXCEPT !.index = @ + 1]}
      [] field = "timestamp" ->
             {[b EXCEPT !.timestamp = t] : t \in Stamps \ {b.timestamp}}
      [] field = "previous_hash" ->
             {[b EXCEPT !.previous_hash = IF @ = ZERO64 THEN SENTINEL ELSE ZERO64]}
      [] field = "event_log" ->
             {[b EXCEPT !.event_log = Append(@, [event_type |-> "FORGED"])]}
      [] field = "transactions" ->
             {[b EXCEPT !.transactions[1].data = <<"{x_pos:9.9}">>]}
      [] field = "current_hash" -> {[b EXCEPT !.current_hash = ZERO64]}

InitVerify ==
    /\ node_up = FALSE
    /\ chain = <<>>
    /\ transaction_pool = <<>>
    /\ pending_auth_challenges = <<>>
    /\ latest_hash = ZERO64
    /\ sequence_count = 0
    /\ ledger_file \in VerifierInputs
    /\ pool_alias = {}
    /\ clock = 0
    /\ last = [req |-> NoRequest, resp |-> NoResponse]
    /\ handled = 0
    /\ challenge_log = <<>>
    /\ saving = FALSE
    /\ verdict = NoVerdict
    /\ tampered = NoTamper
    /\ crashed = FALSE
    /\ built = <<>>
    /\ issued = {}
    /\ accepted = <<>>

(* one field of one block of a ledger that passes is_valid_chain is      *)
(* edited in the file                                                    *)
Tamper ==
    /\ tampered = NoTamper
    /\ is_valid_chain(ledger_file).valid
    /\ \E pos \in 1 .. Len(ledger_file.chain), field \in BlockFields :
         \E b \in TamperedBlocks(ledger_file.chain[pos], field) :
            /\ ledger_file' = JsonFile([ledger_file.chain EXCEPT ![pos] = b])
            /\ tampered' = [pos |-> pos, field |-> field]
    /\ UNCHANGED <<node_up, chain, transaction_pool, pending_auth_challenges,
                   latest_hash, sequence_count, pool_alias, clock, last, handled,
                   challenge_log, saving, verdict, crashed, built, issued, accepted>>

NextVerify ==
    \/ RunVerifier
    \/ Tamper

(* the verifier run on the ledgers of VerifierInputs and on edits of     *)
(* those that pass                                                       *)
SpecVerify == InitVerify /\ [][NextVerify]_vars

(* ------------------------------------- LeaderNode() on any ledger file *)
(* ledgers an earlier run of the leader has written: the genesis block   *)
(* alone, and the genesis block followed by one mined block              *)
LeaderLedgers ==
    LET g == <<genesis_block(ZERO64, 0)>>
    IN  {g, Append(g, LedgerBlock(g, 0, "current"))}

(* what load_chain may find at LEDGER_FILE when LeaderNode() is          *)
(* constructed without the removal of __main__                          *)
LoadInputs ==
    {NoFile, MalformedFile, JsonFile(<<>>)}
    \cup {OtherJsonFile(v) : v \in NonBlockJson}
    \cup {JsonFile(c) : c \in LeaderLedgers}

InitLoad ==
    /\ node_up = FALSE
    /\ chain = <<>>
    /\ transaction_pool = <<>>
    /\ pending_auth_challenges = <<>>
    /\ latest_hash = ZERO64
    /\ sequence_count = 0
    /\ ledger_file \in LoadInputs
    /\ pool_alias = {}
    /\ clock = 0
    /\ last = [req |-> NoRequest, resp |-> NoResponse]
    /\ handled = 0
    /\ challenge_log = <<>>
    /\ saving = FALSE
    /\ verdict = NoVerdict
    /\ tampered = NoTamper
    /\ crashed = FALSE
    /\ built = <<>>
    /\ issued = {}
    /\ accepted = <<>>

(* the leader constructed over the files of LoadInputs *)
SpecLoad == InitLoad /\ [][Next]_vars

(* ------------------------------------------- create_block on any input *)
(* transactions the leader puts into its pool *)
BlockTxs ==
    {TelemetryTx("UAV_A1", <<"{x_pos:1.0}">>, 0),
     AuthSuccessTx("UAV_B2",
                   [ktx_sim |-> calculate_session_key_simulated(UAV_DB["UAV_B2"], 0),
                    rand |-> 0], 0)}

(* the lists create_block is given: the telemetry transaction alone,     *)
(* and the two together in either order                                  *)
BlockBatches ==
    {<<a>> : a \in {tx \in BlockTxs : "data" \in DOMAIN tx}}
    \cup ({<<a, b>> : a, b \in BlockTxs} \ {<<a, a>> : a \in BlockTxs})

(* the engine before the call: new, and after the genesis block *)
EngineStates ==
    {Engine(ZERO64, 0), Engine(generate_sequential_hash(ZERO64), 1)}

PreviousHashes == {e.latest_hash : e \in EngineStates}

InitBlock ==
    /\ node_up = FALSE
    /\ chain = <<>>
    /\ transaction_pool = <<>>
    /\ pending_auth_challenges = <<>>
    /\ \E e \in EngineStates :
          latest_hash = e.latest_hash /\ sequence_count = e.sequence_count
    /\ ledger_file = NoFile
    /\ pool_alias = {}
    /\ clock = 0
    /\ last = [req |-> NoRequest, resp |-> NoResponse]
    /\ handled = 0
    /\ challenge_log = <<>>
    /\ saving = FALSE
    /\ verdict = NoVerdict
    /\ tampered = NoTamper
    /\ crashed = FALSE
    /\ built = <<>>
    /\ issued = {}
    /\ accepted = <<>>

(* one call of create_block on the engine as the call before left it;    *)
(* built keeps the call before and this one                              *)
BuildBlock ==
    \E transactions \in BlockBatches, previous_hash \in PreviousHashes :
      \E times \in ClockReads(Len(transactions) + 1, clock) :
        LET before == Engine(latest_hash, sequence_count)
            made == create_block(before, transactions, previous_hash, 1, times)
            run == [transactions |-> transactions, previous_hash |-> previous_hash,
                    before |-> before, block |-> made.block,
                    after |-> Engine(made.latest_hash, made.sequence_count)]
        IN  /\ latest_hash' = made.latest_hash
            /\ sequence_count' = made.sequence_count
            /\ clock' = times[Len(times)]
            /\ built' = IF built = <<>> THEN <<run>>
                        ELSE <<built[Len(built)], run>>
            /\ UNCHANGED <<node_up, chain, transaction_pool, pending_auth_challenges,
                           ledger_file, pool_alias, last, handled, challenge_log,
                           saving, verdict, tampered, crashed, issued, accepted>>

NextBlock ==
    \/ BuildBlock
    \/ TimePasses

(* create_block called again and again on one engine *)
SpecBlock == InitBlock /\ [][NextBlock]_vars

(* --------------------------------------------------------------- claims *)
(* this step handled a request of the given type for identity u *)
Handles(type, u) ==
    /\ handled' = handled + 1
    /\ last'.req.type = type
    /\ last'.req.uav_supi = u

(* the chain before the step is a prefix of the chain after it *)
ChainExtended == /\ Len(chain') >= Len(chain)
                 /\ SubSeq(chain', 1, Len(chain)) = chain

IsAuthSuccessTx(tx, u, key, rand) ==
    /\ "status" \in DOMAIN tx
    /\ tx.status = "AUTHENTICATED"
    /\ tx.uav_supi = u
    /\ tx.session_key_sim = key
    /\ tx.auth_rand = rand

(* the RES* the client code derives for u from the registered secret     *)
(* and the challenge rand                                                *)
ClientRes(u, rand) == calculate_res_star_simulated(UAV_DB[u], rand)

OtherSecret(u) == UAV_DB[CHOOSE v \in Registered : v # u]

(* C1: for every i >= 1, chain[i].previous_hash is the canonical hash    *)
(* (hash_block) of chain[i-1].                                           *)
C1_LinkIsCanonicalHash ==
    \A i \in 2 .. Len(chain) : chain[i].previous_hash = hash_block(chain[i - 1])

(* C2: after AUTH_REQUEST_1 and the correct AUTH_RESPONSE_2 on a fresh   *)
(* leader the chain has length 2, and is_valid_chain passes on the       *)
(* persisted ledger then and after any sequence of handled requests.     *)
C2_EndToEndVerifies ==
    node_up =>
        /\ is_valid_chain(ledger_file).valid
        /\ (handled = 2 /\ last.resp.status = "AUTH_SUCCESS") => Len(chain) = 2

(* C3: every block's index field equals its 0-based position in the      *)
(* chain.                                                                *)
C3_IndexIsPosition ==
    \A i \in 1 .. Len(chain) : chain[i].index = i - 1

(* C4: for every i >= 1, chain[i].timestamp is strictly greater than     *)
(* chain[i-1].timestamp, the clock being only non-decreasing.            *)
C4_TimestampsStrictlyIncrease ==
    \A i \in 2 .. Len(chain) : chain[i].timestamp > chain[i - 1].timestamp

(* C5: a leader constructed with no persisted ledger has a chain of      *)
(* exactly one block, of index 0 and previous_hash '0', and that chain   *)
(* is what the ledger file holds.                                        *)
C5_GenesisInvariant ==
    (node_up /\ handled = 0) =>
        /\ Len(chain) = 1
        /\ chain[1].index = 0
        /\ chain[1].previous_hash = SENTINEL
        /\ ledger_file = JsonFile(chain)

C5_Witness ==
    /\ node_up
    /\ handled = 0
    /\ Len(chain) = 1
    /\ ledger_file.kind = "json"

(* C6: the chain is append-only: every step leaves the chain it found    *)
(* as a prefix of the chain (no block removed, reordered or changed),    *)
(* and once constructed the chain is never empty.                        *)
C6_AppendOnly ==
    [][node_up => (ChainExtended /\ chain' # <<>>)]_vars

(* C7: an AUTH_RESPONSE_2 carrying the response derived from the right   *)
(* secret and the pending challenge is answered AUTH_SUCCESS with the    *)
(* session key derived from them, and appends exactly one block, which   *)
(* holds an AuthSuccess transaction with that identity, key and          *)
(* challenge.                                                            *)
C7_CorrectResponseAuthenticates ==
    [][\A u \in Registered :
        (/\ Handles("AUTH_RESPONSE_2", u)
         /\ u \in DOMAIN pending_auth_challenges
         /\ last'.req.res_star = ClientRes(u, pending_auth_challenges[u].rand))
        => LET rand == pending_auth_challenges[u].rand
               key == calculate_session_key_simulated(UAV_DB[u], rand)
               txs == chain'[Len(chain')].transactions
           IN  /\ last'.resp = [status |-> "AUTH_SUCCESS", session_key |-> key]
               /\ Len(chain') = Len(chain) + 1
               /\ ChainExtended
               /\ \E k \in 1 .. Len(txs) : IsAuthSuccessTx(txs[k], u, key, rand)
      ]_vars

C7_Witness ==
    /\ last.req.type = "AUTH_RESPONSE_2"
    /\ last.resp.status = "AUTH_SUCCESS"
    /\ Len(chain) = 2
    /\ \E k \in 1 .. Len(chain[2].transactions) :
          IsAuthSuccessTx(chain[2].transactions[k], last.req.uav_supi,
                          last.resp.session_key,
                          challenge_log[last.req.uav_supi].rand)

(* C8: an AUTH_RESPONSE_2 whose response differs from the stored         *)
(* expected value is answered AUTH_FAILURE and changes neither the       *)
(* chain, the pool, the ledger file nor the pending challenges.          *)
C8_MismatchChangesNothing ==
    [][\A u \in Registered :
        (/\ Handles("AUTH_RESPONSE_2", u)
         /\ u \in DOMAIN pending_auth_challenges
         /\ last'.req.res_star # pending_auth_challenges[u].xres_star)
        => /\ last'.resp.status = "AUTH_FAILURE"
           /\ UNCHANGED <<chain, transaction_pool, ledger_file,
                          pending_auth_challenges>>
      ]_vars

(* a response derived from another secret was just refused *)
C8_Witness ==
    LET u == last.req.uav_supi
    IN  /\ last.req.type = "AUTH_RESPONSE_2"
        /\ last.resp.status = "AUTH_FAILURE"
        /\ u \in DOMAIN pending_auth_challenges
        /\ last.req.res_star =
              calculate_res_star_simulated(OtherSecret(u),
                                           pending_auth_challenges[u].rand)

(* C9: after failed AUTH_RESPONSE_2 attempts for an identity and no      *)
(* AUTH_REQUEST_1 for it since, the response derived for the             *)
(* outstanding challenge is still answered AUTH_SUCCESS.                 *)
C9_ChallengeSurvivesFailures ==
    [][\A u \in Registered :
        (/\ Handles("AUTH_RESPONSE_2", u)
         /\ u \in DOMAIN challenge_log
         /\ ~challenge_log[u].consumed
         /\ challenge_log[u].failures >= 1
         /\ last'.req.res_star = ClientRes(u, challenge_log[u].rand))
        => last'.resp.status = "AUTH_SUCCESS"
      ]_vars

C9_Witness ==
    LET u == last.req.uav_supi
    IN  /\ last.req.type = "AUTH_RESPONSE_2"
        /\ last.resp.status = "AUTH_SUCCESS"
        /\ challenge_log[u].consumed
        /\ challenge_log[u].failures >= 1

(* C10: a matching AUTH_RESPONSE_2 deletes the identity's pending        *)
(* challenge; the same response sent again with no AUTH_REQUEST_1 in     *)
(* between, and any AUTH_RESPONSE_2 for an identity without a pending    *)
(* challenge, is answered AUTH_FAILURE and appends no block.             *)
C10_SingleConsumption ==
    [][\A u \in Registered :
        /\ (Handles("AUTH_RESPONSE_2", u) /\ last'.resp.status = "AUTH_SUCCESS")
           => u \notin DOMAIN pending_auth_challenges'
        /\ (/\ Handles("AUTH_RESPONSE_2", u)
            /\ \/ u \notin DOMAIN pending_auth_challenges
               \/ /\ u \in DOMAIN challenge_log
                  /\ challenge_log[u].consumed
                  /\ last'.req.res_star = ClientRes(u, challenge_log[u].rand))
           => /\ last'.resp.status = "AUTH_FAILURE"
              /\ chain' = chain
      ]_vars

(* the response that was accepted was sent again and refused *)
C10_Witness ==
    LET u == last.req.uav_supi
    IN  /\ last.req.type = "AUTH_RESPONSE_2"
        /\ last.resp.status = "AUTH_FAILURE"
        /\ u \in DOMAIN challenge_log
        /\ challenge_log[u].consumed
        /\ last.req.res_star = ClientRes(u, challenge_log[u].rand)
        /\ Len(chain) = 2

(* C11: an identity has one pending challenge, the one issued to it      *)
(* last; once an AUTH_REQUEST_1 replaced a pending challenge, the        *)
(* response derived from the replacing challenge is accepted and the     *)
(* response derived from a replaced one is refused.                      *)
C11_OnlyLatestChallengeAccepted ==
    [][\A u \in Registered :
        /\ Handles("AUTH_REQUEST_1", u)
           => pending_auth_challenges'[u].rand = last'.resp.rand
        /\ (/\ Handles("AUTH_RESPONSE_2", u)
            /\ u \in DOMAIN pending_auth_challenges
            /\ challenge_log[u].replaced # {})
           => /\ last'.req.res_star = ClientRes(u, pending_auth_challenges[u].rand)
                 => last'.resp.status = "AUTH_SUCCESS"
              /\ (\E r \in challenge_log[u].replaced :
                     last'.req.res_star = ClientRes(u, r))
                 => last'.resp.status = "AUTH_FAILURE"
      ]_vars

(* C12: an AUTH_REQUEST_1 for a registered identity changes only that    *)
(* identity's pending challenge: the chain, the ledger file, the pool,   *)
(* the hash engine and the other identities' pending challenges are      *)
(* unchanged, and the response is CHALLENGE_ISSUED with the stored       *)
(* challenge, its AUTN and the node public id.                           *)
C12_ChallengeIssueFrame ==
    [][\A u \in Registered :
        Handles("AUTH_REQUEST_1", u)
        => /\ UNCHANGED <<chain, ledger_file, transaction_pool, latest_hash,
                          sequence_count>>
           /\ DOMAIN pending_auth_challenges' = DOMAIN pending_auth_challenges \cup {u}
           /\ \A v \in DOMAIN pending_auth_challenges \ {u} :
                 pending_auth_challenges'[v] = pending_auth_challenges[v]
           /\ last'.resp = [status |-> "CHALLENGE_ISSUED",
                            rand |-> pending_auth_challenges'[u].rand,
                            autn |-> AutnOf(u, UAV_DB[u], pending_auth_challenges'[u].rand),
                            pk_node |-> "NodePubKey_Sim"]
      ]_vars

(* a challenge was just issued while another identity's was pending *)
C12_Witness ==
    /\ last.req.type = "AUTH_REQUEST_1"
    /\ last.resp.status = "CHALLENGE_ISSUED"
    /\ last.req.uav_supi \in DOMAIN pending_auth_challenges
    /\ DOMAIN pending_auth_challenges # {last.req.uav_supi}

(* C13: a request naming an identity absent from UAV_DB is answered      *)
(* AUTH_FAILURE (unknown identity) whatever its type and leaves the      *)
(* pending challenges, the pool, the chain and the ledger file           *)
(* unchanged; the leader stays up and can handle a request right after.  *)
C13_UnknownIdentityRefused ==
    [][(handled' = handled + 1 /\ last'.req.uav_supi \notin Registered)
       => /\ last'.resp = [status |-> "AUTH_FAILURE", reason |-> "Unknown SUPI/UAV ID"]
          /\ UNCHANGED <<pending_auth_challenges, transaction_pool, chain,
                         ledger_file, latest_hash, sequence_count>>
          /\ node_up'
          /\ handled' < MaxRequests => (ENABLED AuthRequest1)'
      ]_vars

(* an unknown identity was just refused while a challenge was pending *)
C13_Witness ==
    /\ last.req.uav_supi \notin Registered
    /\ last.req.type # "NONE"
    /\ last.resp.status = "AUTH_FAILURE"
    /\ pending_auth_challenges # <<>>
    /\ handled < MaxRequests

IsTelemetryTx(tx, u, data) ==
    /\ DOMAIN tx = {"tx_id", "uav_supi", "data"}
    /\ tx.uav_supi = u
    /\ tx.data = data

(* C14: a TELEMETRY_TX that leaves the pool below 3 transactions is      *)
(* answered TX_RECEIVED, joins the pool and appends no block; the one    *)
(* that brings the pool to 3 is answered TX_BLOCK_ACK and appends        *)
(* exactly one block, whose transactions are the 3 pooled telemetry      *)
(* transactions, and leaves the pool empty.  TX_BLOCK_ACK is the answer  *)
(* exactly when the pool reaches 3 with the request.                     *)
C14_BatchOfThree ==
    [][\A u \in Registered :
        Handles("TELEMETRY_TX", u)
        => LET n == Len(transaction_pool) + 1
               txs == chain'[Len(chain')].transactions
           IN  /\ n <= BatchSize
               /\ (last'.resp.status = "TX_BLOCK_ACK") <=> (n = BatchSize)
               /\ n < BatchSize
                  => /\ last'.resp.status = "TX_RECEIVED"
                     /\ UNCHANGED <<chain, ledger_file>>
                     /\ Len(transaction_pool') = n
                     /\ SubSeq(transaction_pool', 1, n - 1) = transaction_pool
                     /\ IsTelemetryTx(transaction_pool'[n], u, last'.req.data)
               /\ n = BatchSize
                  => /\ Len(chain') = Len(chain) + 1
                     /\ ChainExtended
                     /\ Len(txs) = BatchSize
                     /\ SubSeq(txs, 1, n - 1) = transaction_pool
                     /\ \A k \in 1 .. n - 1 :
                           IsTelemetryTx(txs[k], txs[k].uav_supi, txs[k].data)
                     /\ IsTelemetryTx(txs[n], u, last'.req.data)
                     /\ transaction_pool' = <<>>
                     /\ ledger_file' = JsonFile(chain')
      ]_vars

(* the third telemetry request of a run was just answered with a block *)
C14_Witness ==
    /\ handled = 3
    /\ last.req.type = "TELEMETRY_TX"
    /\ last.resp.status = "TX_BLOCK_ACK"
    /\ Len(chain) = 2
    /\ Len(chain[2].transactions) = BatchSize
    /\ transaction_pool = <<>>

(* C15 as stated: the block appended on a matching AUTH_RESPONSE_2 holds *)
(* exactly the AuthSuccess transaction, also when telemetry was waiting  *)
(* in the pool.                                                          *)
C15_AuthBlockHoldsOnlyAuthTx ==
    [][\A u \in Registered :
        (Handles("AUTH_RESPONSE_2", u) /\ last'.resp.status = "AUTH_SUCCESS")
        => LET txs == chain'[Len(chain')].transactions
           IN  /\ Len(chain') = Len(chain) + 1
               /\ Len(txs) = 1
               /\ IsAuthSuccessTx(txs[1], u, last'.resp.session_key,
                                  pending_auth_challenges[u].rand)
      ]_vars

(* C15 amended: a matching AUTH_RESPONSE_2 mines at once whatever the    *)
(* pool size; the block appended holds the transactions that were        *)
(* waiting in the pool, in order, followed by the AuthSuccess            *)
(* transaction, and the pool is left empty.                              *)
C15_AuthFlushesPool ==
    [][\A u \in Registered :
        (Handles("AUTH_RESPONSE_2", u) /\ last'.resp.status = "AUTH_SUCCESS")
        => LET txs == chain'[Len(chain')].transactions
               n == Len(transaction_pool)
           IN  /\ Len(chain') = Len(chain) + 1
               /\ ChainExtended
               /\ Len(txs) = n + 1
               /\ SubSeq(txs, 1, n) = transaction_pool
               /\ IsAuthSuccessTx(txs[n + 1], u, last'.resp.session_key,
                                  pending_auth_challenges[u].rand)
               /\ transaction_pool' = <<>>
      ]_vars

(* an authentication just succeeded while telemetry was waiting *)
C15_Witness ==
    /\ last.req.type = "AUTH_RESPONSE_2"
    /\ last.resp.status = "AUTH_SUCCESS"
    /\ Len(chain[Len(chain)].transactions) >= 2
    /\ IsTelemetryTx(chain[Len(chain)].transactions[1],
                     chain[Len(chain)].transactions[1].uav_supi,
                     chain[Len(chain)].transactions[1].data)

(* C16: the chain and the ledger file change only in a step that handles *)
(* a matching AUTH_RESPONSE_2 or a TELEMETRY_TX bringing the pool to 3;  *)
(* no other request and no passage of time appends a block, so pooled    *)
(* telemetry stays out of the ledger until one of the two happens.       *)
C16_OnlyTwoMineTriggers ==
    [][(node_up /\ (chain' # chain \/ ledger_file' # ledger_file))
       => \E u \in Registered :
             \/ /\ Handles("AUTH_RESPONSE_2", u)
                /\ u \in DOMAIN pending_auth_challenges
                /\ last'.req.res_star = pending_auth_challenges[u].xres_star
             \/ /\ Handles("TELEMETRY_TX", u)
                /\ Len(transaction_pool) + 1 = BatchSize
      ]_vars

(* requests were handled and time went by with telemetry in the pool     *)
(* and no block beyond genesis                                           *)
C16_Witness ==
    /\ handled = MaxRequests
    /\ Len(transaction_pool) = BatchSize - 1
    /\ Len(chain) = 1
    /\ ledger_file = JsonFile(chain)
    /\ clock = MaxClock
    /\ clock > chain[1].timestamp

(* C17: when save_chain raises inside mine_block, the pool afterwards    *)
(* holds the transactions it held when mine_block was called (those of   *)
(* before the request and the one the request added), and the failure    *)
(* is propagated: it is reported, or it ends the leader.                 *)
C17_SaveFailureKeepsPoolAndPropagates ==
    [][(handled' = handled + 1 /\ last'.resp.status = "RAISED")
       => /\ Len(transaction_pool') = Len(transaction_pool) + 1
          /\ SubSeq(transaction_pool', 1, Len(transaction_pool)) = transaction_pool
          /\ last'.resp.reported \/ ~node_up'
      ]_vars

(* the pool half of C17, which the code keeps *)
C17_PoolKeptOnSaveFailure ==
    [][(handled' = handled + 1 /\ last'.resp.status = "RAISED")
       => /\ Len(transaction_pool') = Len(transaction_pool) + 1
          /\ SubSeq(transaction_pool', 1, Len(transaction_pool)) = transaction_pool
      ]_vars

(* C18: a run of the verifier concurrent with the leader never reads a   *)
(* partial or malformed ledger file: what it reads is the complete       *)
(* chain of before a save or of after it.                                *)
C18_ReaderNeverSeesPartialLedger ==
    verdict.ran
    => /\ verdict.file.kind # "malformed"
       /\ verdict.file.kind = "json"
          => \E n \in 1 .. Len(chain) : verdict.file.chain = SubSeq(chain, 1, n)

(* the 0-based indexes at which the link or the chronology check of      *)
(* ledger c fails                                                        *)
FailingIndexes(c) ==
    {i \in 1 .. Len(c) - 1 :
        \/ c[i + 1].previous_hash # hash_block(c[i])
        \/ c[i + 1].timestamp <= c[i].timestamp}

(* C19: is_valid_chain fails exactly when the chain is empty, or the     *)
(* first block's previous_hash is not '0', or some block's previous_hash *)
(* differs from hash_block of its predecessor or its timestamp is not    *)
(* greater than its predecessor's; when the first two hold and it        *)
(* fails, the index it reports is the smallest failing one.              *)
C19_VerifyCharacterised ==
    (verdict.ran /\ verdict.file.kind = "json")
    => LET c == verdict.file.chain
           r == verdict.result
           failing == FailingIndexes(c)
       IN  /\ r.valid <=> (/\ c # <<>>
                           /\ c[1].previous_hash = SENTINEL
                           /\ failing = {})
           /\ (c # <<>> /\ c[1].previous_hash = SENTINEL /\ failing # {})
              => /\ r.at \in failing
                 /\ \A i \in failing : r.at <= i

(* the verifier failed a ledger on chronology at an index that is not    *)
(* the only failing one                                                  *)
C19_Witness ==
    /\ verdict.ran
    /\ verdict.file.kind = "json"
    /\ ~verdict.result.valid
    /\ verdict.result.reason = "chronology"
    /\ \E i \in FailingIndexes(verdict.file.chain) : i > verdict.result.at

(* the verifier has read the ledger file as edited at block chain[i-1]   *)
(* with a block chain[i] after it                                        *)
VerifiedAfterTamper ==
    /\ tampered # NoTamper
    /\ tampered.pos < Len(ledger_file.chain)
    /\ verdict.ran
    /\ verdict.file = ledger_file

(* C20 as stated: after a change of any one field of chain[i-1] of a     *)
(* ledger that passed, is_valid_chain fails and reports index i.         *)
C20_AnyFieldTamperFailsAtNext ==
    VerifiedAfterTamper
    => /\ ~verdict.result.valid
       /\ verdict.result.at = tampered.pos

(* C20 amended: a change of index, event_log or transactions of          *)
(* chain[i-1] fails at index i; a change of timestamp or previous_hash   *)
(* fails at index i or earlier; a change of current_hash is not          *)
(* noticed.                                                              *)
C20_TamperEvidence ==
    VerifiedAfterTamper
    => LET r == verdict.result
       IN  /\ tampered.field \in {"index", "event_log", "transactions"}
              => (~r.valid /\ r.at = tampered.pos)
           /\ tampered.field \in {"timestamp", "previous_hash"}
              => (~r.valid /\ r.at <= tampered.pos)
           /\ tampered.field = "current_hash" => r.valid

(* the verifier failed a ledger whose transactions were edited in a      *)
(* block that is neither the first nor the last                          *)
C20_Witness ==
    /\ VerifiedAfterTamper
    /\ tampered.field = "transactions"
    /\ tampered.pos >= 2
    /\ ~verdict.result.valid
    /\ verdict.result.at = tampered.pos

ValidTypes == {"AUTH_REQUEST_1", "AUTH_RESPONSE_2", "TELEMETRY_TX"}

(* C21 as stated: every request whose type is none of the three, or     *)
(* missing, is answered ERROR whatever its other fields hold, and        *)
(* changes no leader state.                                              *)
C21_InvalidTypeIsError ==
    [][(handled' = handled + 1 /\ last'.req.type \notin ValidTypes)
       => /\ last'.resp = [status |-> "ERROR", reason |-> "Invalid Request Type"]
          /\ UNCHANGED <<chain, transaction_pool, pending_auth_challenges,
                         latest_hash, sequence_count, ledger_file>>
      ]_vars

(* C21 amended: such a request is answered ERROR when it names a         *)
(* registered identity, whatever res_star or data it carries, and        *)
(* AUTH_FAILURE (unknown identity) when it does not; either way no       *)
(* leader state changes.                                                 *)
C21_InvalidTypeFromRegisteredIsError ==
    [][(handled' = handled + 1 /\ last'.req.type \notin ValidTypes)
       => /\ last'.resp =
                IF last'.req.uav_supi \in Registered
                THEN [status |-> "ERROR", reason |-> "Invalid Request Type"]
                ELSE [status |-> "AUTH_FAILURE", reason |-> "Unknown SUPI/UAV ID"]
          /\ UNCHANGED <<chain, transaction_pool, pending_auth_challenges,
                         latest_hash, sequence_count, ledger_file>>
      ]_vars

(* a request without a type, carrying the response that matches the      *)
(* pending challenge of its identity, was just answered ERROR            *)
C21_Witness ==
    LET u == last.req.uav_supi
    IN  /\ last.req.type = "NO_TYPE"
        /\ last.resp.status = "ERROR"
        /\ u \in DOMAIN pending_auth_challenges
        /\ last.req.res_star = pending_auth_challenges[u].xres_star

(* C22: the step that constructs the leader never fails; over a ledger   *)
(* file that parses to a non-empty list of blocks it adopts that list    *)
(* unchanged, creates no genesis block and leaves the engine digest at   *)
(* the last block's current_hash; over every other file (missing,        *)
(* unparseable, or parsing to something else) it starts a chain of one   *)
(* genesis block                                                         *)
C22_LoadOnStartup ==
    [][(~node_up /\ ~crashed /\ (node_up' \/ crashed'))
       => /\ ~crashed'
          /\ node_up'
          /\ IF ledger_file.kind = "json" /\ ledger_file.chain # <<>>
             THEN /\ chain' = ledger_file.chain
                  /\ latest_hash' = chain'[Len(chain')].current_hash
                  /\ ledger_file' = ledger_file
             ELSE /\ Len(chain') = 1
                  /\ chain'[1].index = 0
                  /\ chain'[1].event_log = <<[event_type |-> "CHAIN_START"]>> ]_vars

(* the hash_at_event values of a block, in order *)
EventHashes(block) ==
    [i \in 1 .. Len(block.event_log) |-> block.event_log[i].hash_at_event]

(* C23: two runs of create_block with the same transactions and the      *)
(* same previous hash give the same current_hash and the same            *)
(* hash_at_event values, whatever the clock returned and whatever the    *)
(* engine held before each run                                           *)
C23_BlockHashesDeterministic ==
    \A i \in DOMAIN built, j \in DOMAIN built :
        (/\ built[i].transactions = built[j].transactions
         /\ built[i].previous_hash = built[j].previous_hash)
        => /\ built[i].block.current_hash = built[j].block.current_hash
           /\ EventHashes(built[i].block) = EventHashes(built[j].block)

(* two runs on the same input that started from different engine states  *)
(* and stored different timestamps                                       *)
C23_Witness ==
    /\ Len(built) = 2
    /\ built[1].transactions = built[2].transactions
    /\ built[1].previous_hash = built[2].previous_hash
    /\ Len(built[1].transactions) = 2
    /\ built[1].before.latest_hash # built[2].before.latest_hash
    /\ built[1].before.sequence_count # built[2].before.sequence_count
    /\ built[1].block.timestamp # built[2].block.timestamp
    /\ built[1].block.event_log[1].timestamp # built[2].block.event_log[1].timestamp
    /\ C23_BlockHashesDeterministic

(* the digest create_block holds when it starts on transaction i of a    *)
(* run: previous_hash for the first, else the entry before's digest      *)
DigestBefore(run, i) ==
    IF i = 1 THEN run.previous_hash
    ELSE run.block.event_log[i - 1].hash_at_event

(* C27: every block create_block has built has one event-log entry per   *)
(* transaction, in order; entry i carries transaction i's tx_id and the  *)
(* digest got from the digest before it (previous_hash for the first)    *)
(* by Difficulty advances and one embed of transaction i; current_hash   *)
(* is the last entry's digest and the engine's digest afterwards, and    *)
(* the step counter ends at len(transactions) * (Difficulty + 1)         *)
C27_BlockLoopShape ==
    \A k \in DOMAIN built :
        LET run == built[k]
            n == Len(run.transactions)
        IN  /\ Len(run.block.event_log) = n
            /\ run.block.transactions = run.transactions
            /\ \A i \in 1 .. n :
                 /\ run.block.event_log[i].tx_id = run.transactions[i].tx_id
                 /\ run.block.event_log[i].hash_at_event =
                      embed_transaction(Advance(DigestBefore(run, i), Difficulty),
                                        run.transactions[i])
            /\ run.block.current_hash = run.block.event_log[n].hash_at_event
            /\ run.block.current_hash = HashAtEvent(run.previous_hash, run.transactions, n)
            /\ run.after.latest_hash = run.block.current_hash
            /\ run.after.sequence_count = n * (Difficulty + 1)

(* a block of two transactions built on an engine that held another      *)
(* digest than previous_hash and a step counter other than 0             *)
C27_Witness ==
    \E k \in DOMAIN built :
        /\ Len(built[k].transactions) = 2
        /\ built[k].before.latest_hash # built[k].previous_hash
        /\ built[k].before.sequence_count > 0
        /\ built[k].after.sequence_count = 2 * (Difficulty + 1)
        /\ built[k].block.event_log[2].hash_at_event = built[k].block.current_hash

RECURSIVE Exposed(_, _, _)
(* the tokens of text s from position i on that stand inside no          *)
(* sha256(...); open lists the brackets entered so far, innermost last   *)
Exposed(s, i, open) ==
    IF i > Len(s) THEN {}
    ELSE IF s[i] \in {"sha256(", "slice("}
    THEN Exposed(s, i + 1, Append(open, s[i]))
    ELSE IF s[i] = ")" /\ open # <<>>
    THEN Exposed(s, i + 1, SubSeq(open, 1, Len(open) - 1))
    ELSE (IF \E k \in DOMAIN open : open[k] = "sha256(" THEN {} ELSE {s[i]})
         \cup Exposed(s, i + 1, open)

(* the fields of a request or a response that carry text *)
TextFields == {"res_star", "data", "autn", "session_key", "hash", "next_hash", "hash_seed"}

(* the long-term secret of no identity is readable in message m *)
NoSecretIn(m) ==
    /\ \A f \in DOMAIN m \cap TextFields :
          Exposed(m[f], 1, <<>>) \cap {UAV_DB[u] : u \in Registered} = {}
    /\ \A f \in DOMAIN m \cap {"type", "uav_supi", "status", "reason", "pk_node"} :
          m[f] \notin {UAV_DB[u] : u \in Registered}

(* C24: the expected response and session key the leader stores for a    *)
(* challenge are the values the client code derives from the registered  *)
(* secret and that challenge; a response equal to the client's value is   *)
(* never refused while its challenge is pending; the session key of      *)
(* AUTH_SUCCESS is the key the client computes; and no request or        *)
(* response shows a long-term secret outside a hash                      *)
C24_DerivationsSymmetric ==
    /\ \A u \in DOMAIN pending_auth_challenges :
         LET p == pending_auth_challenges[u]
         IN  /\ p.xres_star = calculate_res_star_simulated(UAV_DB[u], p.rand)
             /\ p.ktx_sim = client_calculate_session_key_simulated(UAV_DB[u], p.rand)
             /\ (/\ last.req.type = "AUTH_RESPONSE_2"
                 /\ last.req.uav_supi = u
                 /\ last.resp.status = "AUTH_FAILURE")
                => last.req.res_star # calculate_res_star_simulated(UAV_DB[u], p.rand)
    /\ last.resp.status = "AUTH_SUCCESS"
       => LET u == last.req.uav_supi
          IN  /\ last.req.res_star =
                   calculate_res_star_simulated(UAV_DB[u], challenge_log[u].rand)
              /\ last.resp.session_key =
                   client_calculate_session_key_simulated(UAV_DB[u], challenge_log[u].rand)
    /\ NoSecretIn(last.req)
    /\ NoSecretIn(last.resp)

(* a client has answered its challenge with the values it derived and    *)
(* holds the session key the leader returned, a text that has the secret *)
(* inside its hash only                                                  *)
C24_Witness ==
    /\ last.req.type = "AUTH_RESPONSE_2"
    /\ last.resp.status = "AUTH_SUCCESS"
    /\ last.req.res_star = ClientRes(last.req.uav_supi, challenge_log[last.req.uav_supi].rand)
    /\ last.resp.session_key =
         client_calculate_session_key_simulated(UAV_DB[last.req.uav_supi],
                                                challenge_log[last.req.uav_supi].rand)
    /\ \E k \in DOMAIN last.resp.session_key :
          last.resp.session_key[k] = UAV_DB[last.req.uav_supi]
    /\ UAV_DB[last.req.uav_supi] \notin Exposed(last.resp.session_key, 1, <<>>)

RECURSIVE BlockTxsFrom(_, _)
(* the transactions of the blocks of c from position i on, in order *)
BlockTxsFrom(c, i) ==
    IF i > Len(c) THEN <<>> ELSE c[i].transactions \o BlockTxsFrom(c, i + 1)

(* the transactions the leader holds: those of the mined blocks (the     *)
(* genesis block left out), then the pool                                *)
HeldTxs == BlockTxsFrom(chain, 2) \o transaction_pool

(* C25: any two transactions the leader holds, in the pool or in a       *)
(* block, have different tx_id values                                    *)
C25_TxIdsUnique ==
    \A i \in DOMAIN HeldTxs, j \in DOMAIN HeldTxs :
        i # j => HeldTxs[i].tx_id # HeldTxs[j].tx_id

(* C26: the challenge value an AUTH_REQUEST_1 step issues is none of     *)
(* the values issued before it in the run, for any identity              *)
C26_ChallengesFresh ==
    [][(handled' = handled + 1 /\ last'.resp.status = "CHALLENGE_ISSUED")
       => last'.resp.rand \notin issued]_vars

(* C28: the transactions of blocks 1..n of the chain, one block after    *)
(* the other, followed by the pool, are the accepted transactions in     *)
(* the order they were accepted                                          *)
C28_ArrivalOrderKept ==
    node_up => HeldTxs = accepted

C30_PoolAndBlockSizes ==
    /\ Len(transaction_pool) <= BatchSize - 1
    /\ \A i \in DOMAIN transaction_pool : "status" \notin DOMAIN transaction_pool[i]
    /\ \A i \in 2 .. Len(chain) :
         /\ Len(chain[i].transactions) >= 1
         /\ Len(chain[i].transactions) <= BatchSize

(* the third telemetry transaction in a row was mined with the two       *)
(* waiting in the pool, and the pool is empty again                      *)
C30_Witness ==
    /\ Len(chain) = 2
    /\ Len(chain[2].transactions) = 3
    /\ last.resp.status = "TX_BLOCK_ACK"
    /\ transaction_pool = <<>>
    /\ Len(accepted) = 3

(* how often x occurs in the sequence s *)
Occurrences(s, x) == Cardinality({i \in DOMAIN s : s[i] = x})

(* C31: each accepted transaction is held in exactly one place, the      *)
(* pool or the transactions list of one block: every transaction occurs  *)
(* among the held ones as often as it was accepted, and nothing else is  *)
(* held                                                                  *)
C31_EachTxInOnePlace ==
    node_up =>
        /\ \A k \in DOMAIN accepted :
              Occurrences(HeldTxs, accepted[k]) = Occurrences(accepted, accepted[k])
        /\ \A k \in DOMAIN HeldTxs : Occurrences(accepted, HeldTxs[k]) > 0

(* an AuthSuccess transaction for identity u is in a block of the chain *)
AuthCommitted(u) ==
    \E i \in 2 .. Len(chain) : \E k \in DOMAIN chain[i].transactions :
        /\ "status" \in DOMAIN chain[i].transactions[k]
        /\ chain[i].transactions[k].uav_supi = u

(* C32: a step that handles TELEMETRY_TX accepts a transaction into the  *)
(* pool only for an identity whose AuthSuccess transaction was committed *)
(* to the chain before, in this run                                      *)
C32_TelemetryOnlyAfterAuth ==
    [][\A u \in Registered :
          (Handles("TELEMETRY_TX", u) /\ accepted' # accepted) => AuthCommitted(u)]_vars

====
